---- MODULE Spec2Model ----
(***************************************************************************)
(* Cube Rush (src/src/App.tsx): the App phase controller and the Game      *)
(* simulation loop, as a state machine.                                    *)
(*                                                                         *)
(* Numbers are exact fixed point, so that no rounding is introduced:       *)
(*   delta    one unit = 0.1 s                                             *)
(*   speed    one unit = 0.005 world units per second                      *)
(*   z, lastSpawnZ, lateral offsets                                        *)
(*            one unit = 0.0005 world units (= speed unit * delta unit),   *)
(*            so that speed * delta is the plain integer product.          *)
(* A step of the model is one event-loop task of the page together with    *)
(* the React render and the effects it triggers: the next task sees the    *)
(* committed state.                                                        *)
(***************************************************************************)
EXTENDS Integers, Sequences, FiniteSets, TLC

VARIABLES
    gameState,      \* App: useState<GameState>('menu')
    score,          \* App: useState(0)
    highScore,      \* App: useState(() => parseInt(localStorage...))
    showShareCard,  \* App: useState(false)
    finalScoreRef,  \* App: useRef(0)
    localStorage,   \* the string stored under 'cubeRushHighScore' (<<>> = absent)
    timers,         \* pending setTimeout(() => setShowShareCard(true), 500)
    lane,           \* Game: useState<Lane>(0)
    obstacles,      \* Game: useState<Obstacle[]>([])
    speed,          \* Game: useState(INITIAL_SPEED)
    obstacleIdRef,  \* Game: useRef(0)
    lastSpawnZ,     \* Game: useRef(OBSTACLE_SPAWN_DISTANCE)
    ticks,          \* frames simulated while playing (bounds the model)
    runs,           \* runs started so far (bounds the model)
    lastOp          \* the handler that ran last

vars == <<gameState, score, highScore, showShareCard, finalScoreRef, localStorage,
          timers, lane, obstacles, speed, obstacleIdRef, lastSpawnZ, ticks, runs,
          lastOp>>

appVars == <<gameState, score, highScore, showShareCard, finalScoreRef,
             localStorage, timers>>

simVars == <<lane, obstacles, speed, obstacleIdRef, lastSpawnZ>>

-----------------------------------------------------------------------------
(* Bounds of the model *)

MaxTicks == 7
MaxRuns == 2

\* frame times handed to useFrame, in 0.1 s: 0.2 s, and 5.2 s (a tab that was
\* in the background)
Deltas == {2, 52}

\* intervals drawn without the offset 8
SpawnIntervals_NoOffset == {2000, 7999}

\* values of 8 + Math.random() * 4, which lies in [8, 12)
SpawnIntervals == {16000, 23999}

\* clientX of a touch
TouchXs == {0, 30, 61}

\* KeyboardEvent.key
Keys == {"ArrowLeft", "a", "A", "ArrowRight", "d", "D", "x"}

\* contents of localStorage left by an earlier session
SavedValues == {<<>>, <<1, 0>>}

\* positions probed around the collision window (-1.5, 1.5) and radius 1.8
ProbeZs == {-3601, -3600, -3001, -3000, -2999, -1, 0, 1,
            2999, 3000, 3001, 3599, 3600, 3601, 8000}

\* frames simulated from a probed position
ProbeFrames == 2

-----------------------------------------------------------------------------
(* Game constants *)

Lanes == {-1, 0, 1}

LANE_WIDTH == 5000                     \* 2.5
INITIAL_SPEED == 3000                  \* 15
SPEED_INCREMENT == 100                 \* 0.5
OBSTACLE_SPAWN_DISTANCE == 160000      \* 80
OBSTACLE_DESPAWN_DISTANCE == -20000    \* -10
PassedZ == -4000                       \* obs.z < -2
HitRadius == 3600                      \* distance < 1.8
HitWindow == 3000                      \* obs.z > -1.5 && obs.z < 1.5
SwipeThreshold == 30                   \* Math.abs(diff) > 30
PointsPerObstacle == 10                \* setScore(s => s + 10)

-----------------------------------------------------------------------------
(* Helpers *)

Max(a, b) == IF a > b THEN a ELSE b
Min(a, b) == IF a < b THEN a ELSE b
Abs(a) == IF a < 0 THEN -a ELSE a

RECURSIVE NumberToString(_)
\* Number.prototype.toString of a non-negative integer: its decimal digits
NumberToString(n) ==
    IF n < 10 THEN <<n>> ELSE Append(NumberToString(n \div 10), n % 10)

RECURSIVE ParseInt(_)
\* parseInt of a string of decimal digits
ParseInt(s) ==
    IF Len(s) = 1 THEN s[1]
    ELSE 10 * ParseInt(SubSeq(s, 1, Len(s) - 1)) + s[Len(s)]

\* saved ? parseInt(saved) : 0   (null and '' are falsy)
LoadHighScore(saved) == IF saved = <<>> THEN 0 ELSE ParseInt(saved)

\* an advance that removes no obstacle
MoveObstacles_NoDespawn(prev, spd, delta) ==
    [i \in 1..Len(prev) |-> [prev[i] EXCEPT !.z = prev[i].z - spd * delta]]

\* prev.map(obs => ({...obs, z: obs.z - speed * delta}))
\*     .filter(obs => obs.z > OBSTACLE_DESPAWN_DISTANCE)
MoveObstacles(prev, spd, delta) ==
    LET moved == [i \in 1..Len(prev) |->
                     [prev[i] EXCEPT !.z = prev[i].z - spd * delta]]
        Alive(obs) == obs.z > OBSTACLE_DESPAWN_DISTANCE
    IN  SelectSeq(moved, Alive)

\* scoring that forgets the passed flag
Scorable_EveryFrame(obs) == obs.z < PassedZ

\* if (!obs.passed && obs.z < -2)
Scorable(obs) == ~obs.passed /\ obs.z < PassedZ

\* updated.forEach(obs => { if (...) { obs.passed = true; setScore(s => s + 10) } })
MarkPassed(updated) ==
    [i \in 1..Len(updated) |->
        IF Scorable(updated[i]) THEN [updated[i] EXCEPT !.passed = TRUE]
        ELSE updated[i]]

\* the number of setScore(s => s + 10) calls the forEach makes
Credits(updated) == Cardinality({i \in 1..Len(updated) : Scorable(updated[i])})

\* a collision test that forgets the lateral distance
Collides_AnyLane(playerX, obs) == obs.z > -HitWindow /\ obs.z < HitWindow

\* a collision test whose radius 1.2 is smaller than the window
Collides_SmallRadius(playerX, obs) ==
    LET obsX == obs.lane * LANE_WIDTH
    IN  /\ obs.z > -HitWindow
        /\ obs.z < HitWindow
        /\ (playerX - obsX) * (playerX - obsX) + obs.z * obs.z < 2400 * 2400

\* distance < 1.8 && obs.z > -1.5 && obs.z < 1.5, with
\* distance = sqrt((playerX - obsX)^2 + obs.z^2); the squares are compared, and
\* the window is tested first so that the squares stay small
Collides(playerX, obs) ==
    LET obsX == obs.lane * LANE_WIDTH
    IN  /\ obs.z > -HitWindow
        /\ obs.z < HitWindow
        /\ (playerX - obsX) * (playerX - obsX) + obs.z * obs.z < HitRadius * HitRadius

\* the obstacles of the rendered list for which the collision branch runs
Hits(obsList, playerLane) ==
    {i \in 1..Len(obsList) : Collides(playerLane * LANE_WIDTH, obsList[i])}

\* lanes drawn independently for each obstacle of a wave
Shuffles_WithRepeats == [1..3 -> Lanes]

\* lanes.sort(() => Math.random() - 0.5): some permutation of [-1, 0, 1]
Shuffles ==
    {p \in [1..3 -> Lanes] : \A i, j \in 1..3 : i # j => p[i] # p[j]}

\* a wave that may block all three lanes
WaveSizes_UpToThree == {1, 2, 3}

\* Math.random() > 0.7 ? 2 : 1
WaveSizes == {1, 2}

\* a wave whose obstacles all take the id of its first obstacle
SpawnWave_SameId(prev, blockedLanes, firstId) ==
    prev \o [k \in 1..Len(blockedLanes) |->
                [id |-> firstId,
                 z |-> OBSTACLE_SPAWN_DISTANCE,
                 lane |-> blockedLanes[k],
                 passed |-> FALSE]]

\* blockedLanes.forEach(l => setObstacles(prev => [...prev, {id: ref.current++, ...}]))
SpawnWave(prev, blockedLanes, firstId) ==
    prev \o [k \in 1..Len(blockedLanes) |->
                [id |-> firstId + k - 1,
                 z |-> OBSTACLE_SPAWN_DISTANCE,
                 lane |-> blockedLanes[k],
                 passed |-> FALSE]]

\* a speed update with the sign wrong
NextSpeed_Slowing(prev, delta) == prev - (SPEED_INCREMENT * delta) \div 100

\* prev => prev + SPEED_INCREMENT * delta * 0.1   (0.1 * 0.1 s = 1/100)
NextSpeed(prev, delta) == prev + (SPEED_INCREMENT * delta) \div 100

\* a move left without the clamp
LaneLeft_Unclamped(prev) == prev - 1

\* Math.max(-1, prev - 1)
LaneLeft(prev) == Max(-1, prev - 1)

\* Math.min(1, prev + 1)
LaneRight(prev) == Min(1, prev + 1)

-----------------------------------------------------------------------------
(* Initial state: App and Game just mounted *)

Init ==
    /\ gameState = "menu"
    /\ score = 0
    /\ localStorage \in SavedValues
    /\ highScore = LoadHighScore(localStorage)
    /\ showShareCard = FALSE
    /\ finalScoreRef = 0
    /\ timers = 0
    /\ lane = 0
    /\ obstacles = <<>>
    /\ speed = INITIAL_SPEED
    /\ obstacleIdRef = 0
    /\ lastSpawnZ = OBSTACLE_SPAWN_DISTANCE
    /\ ticks = 0
    /\ runs = 0
    /\ lastOp = "mount"

-----------------------------------------------------------------------------
(* Operations *)

\* a reset effect that leaves the registry and the score alone
ResetGame_StaleRun ==
    /\ lane' = 0
    /\ speed' = INITIAL_SPEED
    /\ lastSpawnZ' = OBSTACLE_SPAWN_DISTANCE
    /\ obstacleIdRef' = 0
    /\ UNCHANGED <<obstacles, score>>

\* the "Reset game" effect of Game, run when gameState has become 'playing'
ResetGame ==
    /\ lane' = 0
    /\ obstacles' = <<>>
    /\ speed' = INITIAL_SPEED
    /\ score' = 0
    /\ lastSpawnZ' = OBSTACLE_SPAWN_DISTANCE
    /\ obstacleIdRef' = 0

\* the PLAY button (rendered in the menu only); the render it causes runs the
\* reset effect before the next frame
startGame ==
    /\ gameState = "menu"
    /\ runs < MaxRuns
    /\ gameState' = "playing"
    /\ showShareCard' = FALSE
    /\ ResetGame
    /\ runs' = runs + 1
    /\ lastOp' = "startGame"
    /\ UNCHANGED <<highScore, finalScoreRef, localStorage, timers, ticks>>

\* a key handler without the phase guard
handleKeyDown_AnyPhase(key) ==
    /\ lastOp' = "handleKeyDown"
    /\ lane' = IF key \in {"ArrowLeft", "a", "A"} THEN LaneLeft(lane)
               ELSE IF key \in {"ArrowRight", "d", "D"} THEN LaneRight(lane)
               ELSE lane
    /\ UNCHANGED <<appVars, obstacles, speed, obstacleIdRef, lastSpawnZ, ticks, runs>>

\* keydown on window
handleKeyDown(key) ==
    /\ lastOp' = "handleKeyDown"
    /\ IF gameState # "playing"
       THEN UNCHANGED <<appVars, simVars, ticks, runs>>
       ELSE
         /\ lane' = IF key \in {"ArrowLeft", "a", "A"} THEN LaneLeft(lane)
                    ELSE IF key \in {"ArrowRight", "d", "D"} THEN LaneRight(lane)
                    ELSE lane
         /\ UNCHANGED <<appVars, obstacles, speed, obstacleIdRef, lastSpawnZ,
                        ticks, runs>>

\* touchstart at touchStartX followed by touchend at touchEndX
handleTouchEnd(touchStartX, touchEndX) ==
    /\ lastOp' = "handleTouchEnd"
    /\ IF gameState # "playing"
       THEN UNCHANGED <<appVars, simVars, ticks, runs>>
       ELSE
         LET diff == touchEndX - touchStartX
         IN  /\ lane' = IF Abs(diff) > SwipeThreshold
                        THEN (IF diff > 0 THEN LaneRight(lane) ELSE LaneLeft(lane))
                        ELSE lane
             /\ UNCHANGED <<appVars, obstacles, speed, obstacleIdRef, lastSpawnZ,
                            ticks, runs>>

\* a game-over handler that schedules no share-card timer
handleGameOver_NoTimer(calls) ==
    /\ finalScoreRef' = score
    /\ IF score > highScore
       THEN /\ highScore' = score
            /\ localStorage' = NumberToString(score)
       ELSE UNCHANGED <<highScore, localStorage>>
    /\ timers' = timers

\* a game-over handler that stores the final score without comparing it
handleGameOver_AlwaysStore(calls) ==
    /\ finalScoreRef' = score
    /\ highScore' = score
    /\ localStorage' = NumberToString(score)
    /\ timers' = timers + calls

\* handleGameOver, called once per colliding obstacle of the frame; every call
\* reads the score and highScore of the same render
handleGameOver(calls) ==
    /\ finalScoreRef' = score
    /\ IF score > highScore
       THEN /\ highScore' = score
            /\ localStorage' = NumberToString(score)
       ELSE UNCHANGED <<highScore, localStorage>>
    /\ timers' = timers + calls

\* a cursor that takes the else branch of `if (lastSpawnZ.current > 0)`
Spawning_Early(cursor) == ~(cursor > OBSTACLE_SPAWN_DISTANCE \div 2)

\* the else branch of `if (lastSpawnZ.current > 0)` is taken
Spawning(cursor) == ~(cursor > 0)

\* the body of the useFrame callback after its phase guard; the closure reads
\* lane, obstacles, speed, score and highScore of the last render
Simulate(delta, numObstacles, shuffled, interval) ==
    LET updated == MoveObstacles(obstacles, speed, delta)
        spawning == Spawning(lastSpawnZ)
        blockedLanes == SubSeq(shuffled, 1, numObstacles)
        hits == Hits(obstacles, lane)
    IN  /\ ticks < MaxTicks
        /\ ticks' = ticks + 1
        /\ obstacles' =
               IF spawning
               THEN SpawnWave(MarkPassed(updated), blockedLanes, obstacleIdRef)
               ELSE MarkPassed(updated)
        /\ score' = score + PointsPerObstacle * Credits(updated)
        /\ obstacleIdRef' = IF spawning THEN obstacleIdRef + numObstacles
                            ELSE obstacleIdRef
        /\ lastSpawnZ' = IF spawning THEN interval
                         ELSE lastSpawnZ - speed * delta
        /\ IF hits # {}
           THEN /\ gameState' = "gameover"
                /\ handleGameOver(Cardinality(hits))
           ELSE UNCHANGED <<gameState, finalScoreRef, highScore,
                            localStorage, timers>>
        /\ speed' = NextSpeed(speed, delta)
        /\ UNCHANGED <<showShareCard, lane, runs>>

\* a frame callback that simulates in every phase
Tick_AnyPhase(delta, numObstacles, shuffled, interval) ==
    /\ lastOp' = "useFrame"
    /\ Simulate(delta, numObstacles, shuffled, interval)

\* the useFrame callback of Game, with the frame's random draws; the closure
\* reads gameState of the last render
Tick(delta, numObstacles, shuffled, interval) ==
    /\ lastOp' = "useFrame"
    /\ IF gameState # "playing"
       THEN UNCHANGED <<appVars, simVars, ticks, runs>>
       ELSE Simulate(delta, numObstacles, shuffled, interval)

\* the 500 ms timer of handleGameOver fires
ShareCardTimer ==
    /\ timers > 0
    /\ timers' = timers - 1
    /\ showShareCard' = TRUE
    /\ lastOp' = "setTimeout"
    /\ UNCHANGED <<gameState, score, highScore, finalScoreRef, localStorage,
                   simVars, ticks, runs>>

\* a Close button that starts the next run at once
onClose_PlayAgain ==
    /\ showShareCard
    /\ showShareCard' = FALSE
    /\ gameState' = "playing"
    /\ lastOp' = "onClose"
    /\ UNCHANGED <<score, highScore, finalScoreRef, localStorage, timers,
                   simVars, ticks, runs>>

\* the Close button of the share card (rendered while showShareCard)
onClose ==
    /\ showShareCard
    /\ showShareCard' = FALSE
    /\ gameState' = "menu"
    /\ lastOp' = "onClose"
    /\ UNCHANGED <<score, highScore, finalScoreRef, localStorage, timers,
                   simVars, ticks, runs>>

KeyDown == \E key \in Keys : handleKeyDown(key)

Touch == \E x0, x1 \in TouchXs : handleTouchEnd(x0, x1)

\* one animation frame; Math.random() is drawn in the spawn branch only
Frame ==
    \E delta \in Deltas :
        IF gameState = "playing" /\ Spawning(lastSpawnZ)
        THEN \E n \in WaveSizes, shuffled \in Shuffles, r \in SpawnIntervals :
                 Tick(delta, n, shuffled, r)
        ELSE Tick(delta, 1, <<-1, 0, 1>>, 16000)

Next ==
    \/ startGame
    \/ KeyDown
    \/ Touch
    \/ Frame
    \/ ShareCardTimer
    \/ onClose

Spec == Init /\ [][Next]_vars

\* a run three frames old: frame 1 ran the cursor down, frame 2 spawned one
\* obstacle in lane obsLane, frame 3 brought it to position z; the player
\* stands in any lane
CollisionInit ==
    \E z \in ProbeZs, obsLane \in Lanes, playerLane \in Lanes :
        /\ gameState = "playing"
        /\ score = 0
        /\ localStorage = <<>>
        /\ highScore = 0
        /\ showShareCard = FALSE
        /\ finalScoreRef = 0
        /\ timers = 0
        /\ lane = playerLane
        /\ obstacles = <<[id |-> 0, z |-> z, lane |-> obsLane,
                          passed |-> z < PassedZ]>>
        /\ speed = INITIAL_SPEED + 108
        /\ obstacleIdRef = 1
        /\ lastSpawnZ = 16000 - (OBSTACLE_SPAWN_DISTANCE - z)
        /\ ticks = MaxTicks - ProbeFrames
        /\ runs = 1
        /\ lastOp = "useFrame"

\* the program run from every probed position
CollisionSpec == CollisionInit /\ [][Next]_vars

\* the browser runs a timer callback once its 500 ms have elapsed
LiveSpec == Init /\ [][Next]_vars /\ WF_vars(ShareCardTimer)

-----------------------------------------------------------------------------
(* Notions the properties are stated in *)

\* the spec's collision rule: same lane, position inside the window around zero
InPlayersWay(obs) == obs.lane = lane /\ obs.z > -HitWindow /\ obs.z < HitWindow

Blocked == \E i \in 1..Len(obstacles) : InPlayersWay(obstacles[i])

PlayingFrame == gameState = "playing" /\ lastOp' = "useFrame"

Ids(obsList) == {obsList[i].id : i \in 1..Len(obsList)}

GameOverStep == gameState = "playing" /\ gameState' = "gameover"

StartStep == gameState = "menu" /\ gameState' = "playing"

-----------------------------------------------------------------------------
(* C1: the phase starts as menu and only ever changes menu -> playing (by  *)
(* the start action), playing -> gameover (by a frame that detects a       *)
(* collision) and gameover -> menu (by closing the share card).            *)
C1_PhaseTransitions ==
    /\ gameState = "menu"
    /\ [][gameState' # gameState =>
            \/ StartStep /\ lastOp' = "startGame"
            \/ GameOverStep /\ lastOp' = "useFrame" /\ Blocked
            \/ gameState = "gameover" /\ gameState' = "menu"
                 /\ lastOp' = "onClose" /\ showShareCard]_vars

\* a second run is under way: every transition of the cycle has been taken
C1_Witness == runs = 2 /\ gameState = "playing" /\ lastOp = "useFrame"

(* C2: a frame run while playing ends the run exactly when some live        *)
(* obstacle is in the player's lane with its position inside the collision *)
(* window; otherwise the phase stays playing.                              *)
C2_CollisionEndsRun ==
    [][PlayingFrame =>
          gameState' = (IF Blocked THEN "gameover" ELSE "playing")]_vars

\* a run ended by a frame while another obstacle of the same wave, in another
\* lane, was inside the window as well
C2_Witness ==
    /\ gameState = "gameover"
    /\ lastOp = "useFrame"
    /\ \E i, j \in 1..Len(obstacles) :
          /\ obstacles[i].lane = lane
          /\ obstacles[j].lane # lane
          /\ obstacles[j].z = obstacles[i].z

(* C3: within a run an obstacle's passed flag goes false -> true at most    *)
(* once and never back, every such change adds exactly 10 to the score and *)
(* nothing else changes the score; the score never decreases in a run.     *)
C3_ScoredOncePerObstacle ==
    [][IF StartStep THEN score' = 0
       ELSE IF obstacles' = obstacles THEN score' = score
       ELSE
         LET nowPassed(id) == \E j \in 1..Len(obstacles') :
                                 obstacles'[j].id = id /\ obstacles'[j].passed
             flipped == {i \in 1..Len(obstacles) :
                            ~obstacles[i].passed /\ nowPassed(obstacles[i].id)}
         IN  /\ score' = score + 10 * Cardinality(flipped)
             /\ score' >= score
             /\ \A i \in 1..Len(obstacles), j \in 1..Len(obstacles') :
                   (obstacles'[j].id = obstacles[i].id /\ obstacles[i].passed)
                       => obstacles'[j].passed
             /\ \A j \in 1..Len(obstacles') :
                   obstacles'[j].id \notin Ids(obstacles) => ~obstacles'[j].passed]_vars

\* an obstacle that was marked passed in an earlier frame is still live, below
\* the scoring threshold, after a further frame, with 10 points for it
C3_Witness ==
    /\ gameState = "playing"
    /\ score = 10
    /\ \E i \in 1..Len(obstacles) :
          obstacles[i].passed /\ obstacles[i].z < 2 * PassedZ

(* C4: every obstacle that a frame removes from the registry (position at   *)
(* or below -10) was marked passed, and credited, before.                  *)
C4_DespawnedWerePassed ==
    [][PlayingFrame =>
          \A i \in 1..Len(obstacles) :
              obstacles[i].id \notin Ids(obstacles') => obstacles[i].passed]_vars

(* C5: when a run ends with final score F and stored high score H the       *)
(* persisted high score becomes max(F, H); the high score never decreases, *)
(* is written at a game-over transition only, and the in-memory high score *)
(* equals the persisted value.                                             *)
C5_HighScoreIsMax ==
    /\ [](highScore = LoadHighScore(localStorage))
    /\ [][/\ GameOverStep =>
               /\ LoadHighScore(localStorage') =
                     Max(finalScoreRef', LoadHighScore(localStorage))
               /\ highScore' = Max(finalScoreRef', highScore)
          /\ ~GameOverStep => UNCHANGED <<highScore, localStorage>>
          /\ highScore' >= highScore]_vars

\* a run has ended with a final score of 20, a new record, now persisted
C5_Witness ==
    /\ gameState = "gameover"
    /\ finalScoreRef = 20
    /\ highScore = 20
    /\ localStorage = <<2, 0>>

(* C6: every transition menu -> playing resets the run: lane 0, empty       *)
(* registry, speed 15, score 0, spawn cursor 80, id counter 0, whatever    *)
(* the previous run left.                                                  *)
C6_StartResetsRun ==
    [][StartStep =>
          /\ lane' = 0
          /\ obstacles' = <<>>
          /\ speed' = INITIAL_SPEED
          /\ score' = 0
          /\ lastSpawnZ' = OBSTACLE_SPAWN_DISTANCE
          /\ obstacleIdRef' = 0]_vars

\* a second run has just started after a run that ended with points scored
C6_Witness ==
    /\ runs = 2
    /\ lastOp = "startGame"
    /\ finalScoreRef > 0
    /\ obstacles = <<>>
    /\ score = 0

(* C7: the player's lane and every live obstacle's lane is -1, 0 or 1; a    *)
(* move left at lane -1 and a move right at lane 1 change nothing, any     *)
(* other move changes the lane by exactly one; three moves left from lane  *)
(* 0 give lane -1.                                                         *)
C7_LanesClamped ==
    /\ [](/\ lane \in Lanes
          /\ \A i \in 1..Len(obstacles) : obstacles[i].lane \in Lanes)
    /\ [][(gameState = "playing" /\ lastOp' \in {"handleKeyDown", "handleTouchEnd"}) =>
            LET key == lastOp' = "handleKeyDown"
                left == IF key
                        THEN \E k \in {"ArrowLeft", "a", "A"} : handleKeyDown(k)
                        ELSE \E x0, x1 \in TouchXs :
                                x1 - x0 < -SwipeThreshold /\ handleTouchEnd(x0, x1)
                right == IF key
                         THEN \E k \in {"ArrowRight", "d", "D"} : handleKeyDown(k)
                         ELSE \E x0, x1 \in TouchXs :
                                 x1 - x0 > SwipeThreshold /\ handleTouchEnd(x0, x1)
            IN  /\ left => lane' = (IF lane = -1 THEN -1 ELSE lane - 1)
                /\ right => lane' = (IF lane = 1 THEN 1 ELSE lane + 1)
                /\ lane' - lane \in {-1, 0, 1}]_vars
    /\ LaneLeft(LaneLeft(LaneLeft(0))) = -1

\* the player is at the left edge, after an intent, while obstacles are live
C7_Witness ==
    /\ gameState = "playing"
    /\ lane = -1
    /\ lastOp \in {"handleKeyDown", "handleTouchEnd"}
    /\ obstacles # <<>>

(* C8: a move intent (key press or swipe) received while the phase is menu  *)
(* or gameover leaves the lane and all other simulation state unchanged.   *)
C8_IntentsIgnoredUnlessPlaying ==
    [][(gameState # "playing" /\ lastOp' \in {"handleKeyDown", "handleTouchEnd"})
          => UNCHANGED <<appVars, simVars>>]_vars

\* an intent arrived after the run ended away from the centre lane
C8_Witness ==
    /\ gameState = "gameover"
    /\ lastOp \in {"handleKeyDown", "handleTouchEnd"}
    /\ lane # 0
    /\ obstacles # <<>>

(* C9: a frame run while playing never lowers the speed; only the reset on  *)
(* entering playing lowers it, and the speed is never below the initial    *)
(* speed 15.                                                               *)
C9_SpeedNeverDrops ==
    /\ [](speed >= INITIAL_SPEED)
    /\ [][/\ PlayingFrame => speed' >= speed
          /\ speed' < speed => StartStep]_vars

\* a sped-up run was followed by a reset and the new run has sped up again
C9_Witness ==
    /\ runs = 2
    /\ gameState = "playing"
    /\ speed > INITIAL_SPEED

(* C10: every spawned wave creates obstacles in exactly one or exactly two  *)
(* pairwise distinct lanes, all at the spawn distance 80 and not passed, so *)
(* at least one lane stays open and no wave is empty.                      *)
C10_WaveLeavesLaneOpen ==
    [][PlayingFrame =>
          LET wave == {j \in 1..Len(obstacles') :
                          obstacles'[j].id \notin Ids(obstacles)}
              blocked == {obstacles'[j].lane : j \in wave}
          IN  /\ ~(lastSpawnZ > 0) => wave # {}
              /\ wave # {} =>
                    /\ Cardinality(wave) \in {1, 2}
                    /\ Cardinality(blocked) = Cardinality(wave)
                    /\ blocked \subseteq Lanes
                    /\ Lanes \ blocked # {}
                    /\ \A j \in wave : /\ obstacles'[j].z = OBSTACLE_SPAWN_DISTANCE
                                       /\ ~obstacles'[j].passed]_vars

\* a wave of two obstacles has just been spawned behind an earlier wave
C10_Witness ==
    /\ lastOp = "useFrame"
    /\ Len(obstacles) >= 3
    /\ obstacles[Len(obstacles)].z = OBSTACLE_SPAWN_DISTANCE
    /\ obstacles[Len(obstacles) - 1].z = OBSTACLE_SPAWN_DISTANCE

\* the positions in obstacles' of the obstacles that the step creates
NewWave == {j \in 1..Len(obstacles') : obstacles'[j].id \notin Ids(obstacles)}

C12_DespawnAndRange ==
    /\ [](\A i \in 1..Len(obstacles) :
              /\ obstacles[i].z > OBSTACLE_DESPAWN_DISTANCE
              /\ obstacles[i].z <= OBSTACLE_SPAWN_DISTANCE)
    /\ [][/\ PlayingFrame =>
               \A i \in 1..Len(obstacles) :
                  \E delta \in Deltas :
                     /\ speed' = NextSpeed(speed, delta)
                     /\ obstacles[i].z - speed * delta <= OBSTACLE_DESPAWN_DISTANCE
                            => obstacles[i].id \notin Ids(obstacles')
          /\ (obstacles' # obstacles /\ ~StartStep) =>
               \A i \in 1..Len(obstacles), j \in 1..Len(obstacles') :
                  obstacles'[j].id = obstacles[i].id
                     => obstacles'[j].z <= obstacles[i].z]_vars

\* the first obstacle of the run has been removed and the run goes on
C12_Witness ==
    /\ gameState = "playing"
    /\ obstacleIdRef > 0
    /\ 0 \notin Ids(obstacles)

(* C13: within a run the ids of the live obstacles are pairwise distinct    *)
(* and increase in creation order; every obstacle a frame creates gets an  *)
(* id that no obstacle created earlier in the run has had, and the id      *)
(* counter falls only when a run starts.                                   *)
C13_IdsUniqueIncreasing ==
    /\ [](\A i, j \in 1..Len(obstacles) :
              /\ i < j => obstacles[i].id < obstacles[j].id
              /\ obstacles[i].id < obstacleIdRef)
    /\ [][/\ PlayingFrame =>
               /\ \A j \in NewWave : /\ obstacles'[j].id >= obstacleIdRef
                                      /\ obstacles'[j].id < obstacleIdRef'
               /\ obstacleIdRef' = obstacleIdRef + Cardinality(NewWave)
          /\ obstacleIdRef' < obstacleIdRef => StartStep]_vars

\* two waves of the same run are live, the later one of two obstacles
C13_Witness ==
    /\ gameState = "playing"
    /\ Len(obstacles) >= 3
    /\ obstacles[Len(obstacles)].id = obstacles[Len(obstacles) - 1].id + 1
    /\ obstacles[Len(obstacles)].z = obstacles[Len(obstacles) - 1].z
    /\ obstacles[1].z < obstacles[Len(obstacles)].z

(* C14: for every player lane, obstacle lane and position, the collision    *)
(* test of the frame callback (Euclidean distance below 1.8 and position   *)
(* strictly between -1.5 and 1.5) holds exactly when the obstacle is in    *)
(* the player's lane and its position is strictly inside that window.      *)
C14_CollisionIsLaneAndWindow ==
    \A i \in 1..Len(obstacles), playerLane \in Lanes :
        Collides(playerLane * LANE_WIDTH, obstacles[i])
            <=> /\ obstacles[i].lane = playerLane
                /\ obstacles[i].z > -HitWindow
                /\ obstacles[i].z < HitWindow

\* the obstacle probed just inside the window, in the player's lane, has
\* ended the run in the next frame
C14_Witness ==
    /\ gameState = "gameover"
    /\ ticks = MaxTicks - ProbeFrames + 1
    /\ \E i \in 1..Len(obstacles), delta \in Deltas :
          /\ obstacles[i].lane = lane
          /\ obstacles[i].z = 2999 - (INITIAL_SPEED + 108) * delta

(* C15: a frame run while the phase is menu or gameover changes nothing of  *)
(* the phase, score, high score, share card, lane, obstacles, speed, id    *)
(* counter or spawn cursor.                                                *)
C15_IdleFrameChangesNothing ==
    [][(gameState # "playing" /\ lastOp' = "useFrame")
          => UNCHANGED <<appVars, simVars>>]_vars

\* a frame ran after the run had ended and the share card had come up
C15_Witness ==
    /\ gameState = "gameover"
    /\ showShareCard
    /\ lastOp = "useFrame"
    /\ obstacles # <<>>

(* C16: while the phase is gameover, the final score recorded by the        *)
(* game-over handler equals the score of the run: the frame that detects   *)
(* the collision credits no points after the final score was captured, and *)
(* nothing credits points afterwards.                                      *)
C16_FinalScoreIsRunScore ==
    gameState = "gameover" => finalScoreRef = score

(* C17: no tunnelling: an obstacle in the player's lane at position 1.5 or  *)
(* beyond is not carried by a frame to -1.5 or below, marked passed or     *)
(* removed, unless that frame ends the run.                                *)
C17_NoTunnelling ==
    [][PlayingFrame =>
          \A i \in 1..Len(obstacles) :
             (/\ obstacles[i].lane = lane
              /\ obstacles[i].z >= HitWindow
              /\ \/ obstacles[i].id \notin Ids(obstacles')
                 \/ \E j \in 1..Len(obstacles') :
                       /\ obstacles'[j].id = obstacles[i].id
                       /\ \/ obstacles'[j].z <= -HitWindow
                          \/ obstacles'[j].passed)
             => gameState' = "gameover"]_vars

(* C18: every step from playing to gameover invokes the game-over handler   *)
(* exactly once and nothing else invokes it, so at most one share-card     *)
(* timer is pending at any time, and the share card is visible only while  *)
(* the phase is gameover.                                                  *)
C18_RunEndsOnce ==
    /\ [](timers <= 1)
    /\ [](showShareCard => gameState = "gameover")
    /\ [][/\ GameOverStep => timers' = timers + 1
          /\ timers' > timers => GameOverStep]_vars

\* a run with a wave of two obstacles has ended and its timer is pending
C18_Witness ==
    /\ gameState = "gameover"
    /\ timers = 1
    /\ ~showShareCard
    /\ Len(obstacles) >= 2

(* C19: any two live obstacles in the same lane are at least 8 apart, and   *)
(* at most one live obstacle meets the collision test of a frame.          *)
C19_SameLaneSpacing ==
    /\ \A i, j \in 1..Len(obstacles) :
          (i # j /\ obstacles[i].lane = obstacles[j].lane)
             => Abs(obstacles[i].z - obstacles[j].z) >= 16000
    /\ Cardinality(Hits(obstacles, lane)) <= 1

\* two waves have put obstacles in the same lane
C19_Witness ==
    /\ gameState = "playing"
    /\ \E i, j \in 1..Len(obstacles) :
          /\ i # j
          /\ obstacles[i].lane = obstacles[j].lane

(* C20: whenever the phase is gameover the share card eventually becomes    *)
(* visible, given that a pending timer fires; while it is visible Close is *)
(* enabled and a Close step leads to menu; in gameover the timer is        *)
(* pending or the card is visible, so menu stays reachable; and in menu    *)
(* Start is enabled (as long as the model's run budget lasts).             *)
C20_GameOverLeadsBack ==
    /\ (gameState = "gameover") ~> showShareCard
    /\ [](gameState = "gameover" => (timers > 0 \/ showShareCard))
    /\ [](showShareCard => ENABLED onClose)
    /\ [][lastOp' = "onClose" => (showShareCard /\ gameState' = "menu")]_vars
    /\ []((gameState = "menu" /\ runs < MaxRuns) => ENABLED startGame)

\* Close on the share card has led back to menu and Start has begun a new run
C20_Witness ==
    /\ gameState = "playing"
    /\ runs = 2
    /\ lastOp = "startGame"
    /\ timers = 0
    /\ ~showShareCard

====
